---- MODULE Spec2Model ----
(***************************************************************************)
(* A model of expyro: a directory-backed store of experiment runs.         *)
(*                                                                         *)
(* A file name is a sequence of tokens (strings); the token "." is the dot *)
(* that pathlib uses to split a name in stem and suffix.  A path is a      *)
(* sequence of names.  The file system is a set of directories and a       *)
(* function from file paths to file contents.                              *)
(***************************************************************************)
EXTENDS Integers, Sequences, FiniteSets, TLC

VARIABLES
    dirs,       \* the directories that exist on disk
    files,      \* the files on disk: path -> content
    now,        \* the last reading of the wall clock by datetime.now()
    plotters,   \* Experiment.plotters
    handles,    \* the Run objects the callers hold
    pc,         \* per caller: the position inside Experiment.__call__
    cfg,        \* per caller: the config argument of the running __call__
    folder,     \* per caller: the local variable folder of __call__
    res,        \* per caller: the local variable result of __call__
    src,        \* per caller: the Run whose reproduce() entered __call__
    last,       \* per caller: the outcome of the last completed operation
    ops,        \* number of create, reproduce, plot and rename calls so far
    plotHist,   \* history: <<location, k, folder>> for the k-th plot generation of a location
    stale,      \* history: the locations that rename moved away
    context,    \* per caller: the value of the ContextVar _hook.context
    figures     \* the figures that are open in matplotlib.pyplot

vars == <<dirs, files, now, plotters, handles, pc, cfg,
          folder, res, src, last, ops, plotHist, stale, context, figures>>

----------------------------------------------------------------------------
(* Bounds of the model.                                                    *)

MaxTime == 1
MaxOps == 3

Procs == {"p1", "p2"}
Configs == {"c1", "c2"}
Results == {"r1", "r2"}
Failures == {"boom"}
RenameNames == {<<"y">>}

----------------------------------------------------------------------------
(* Paths.                                                                  *)

\* Experiment.directory / Experiment.name
Root == <<<<"root">>, <<"exp">>>>

Parent(path) == SubSeq(path, 1, Len(path) - 1)

Name(path) == path[Len(path)]

Exists(fs, path) == path \in fs.dirs \/ path \in DOMAIN fs.files

IsDir(fs, path) == path \in fs.dirs

\* The index of the last "." of a name that splits it, 0 when there is none:
\* the dot must be neither the first nor the last character.
RECURSIVE RFind(_, _)
RFind(name, i) ==
    IF i = 0 THEN 0
    ELSE IF name[i] = "." THEN i
    ELSE RFind(name, i - 1)

DotIndex(name) ==
    LET i == RFind(name, Len(name))
    IN  IF 1 < i /\ i < Len(name) THEN i ELSE 0

Stem(name) ==
    IF DotIndex(name) = 0 THEN name ELSE SubSeq(name, 1, DotIndex(name) - 1)

Suffix(name) ==
    IF DotIndex(name) = 0 THEN <<>> ELSE SubSeq(name, DotIndex(name), Len(name))

\* f"{stem} ({counter}){suffix}"
Numbered(path, counter) ==
    Append(Parent(path),
           Stem(Name(path)) \o <<" (" \o ToString(counter) \o ")">> \o Suffix(Name(path)))

RECURSIVE Probe(_, _, _)
Probe(fs, path, counter) ==
    IF Exists(fs, Numbered(path, counter))
    THEN Probe(fs, path, counter + 1)
    ELSE Numbered(path, counter)

\* unique_new_path whose counter starts at 2
unique_new_path_from2(fs, path) ==
    IF ~Exists(fs, path) THEN path ELSE Probe(fs, path, 2)

unique_new_path(fs, path) ==
    IF ~Exists(fs, path) THEN path ELSE Probe(fs, path, 1)

\* datetime.now().strftime("%Y-%m-%d %H-%M-%S.%f"): seconds, a dot, microseconds;
\* t counts the microseconds of one second
Timestamp(t) == <<"2024-01-01 00-00-00", ".", ToString(t)>>

----------------------------------------------------------------------------
(* File system operations.                                                 *)

FS == [dirs |-> dirs, files |-> files]

Prefixes(path) == {SubSeq(path, 1, n) : n \in 1..Len(path)}

\* Path.mkdir(parents=True, exist_ok=False); the caller has checked ~Exists
MkdirParents(fs, path) == [fs EXCEPT !.dirs = @ \cup Prefixes(path)]

\* open(path, "wb") and write
WriteFile(fs, path, content) ==
    [fs EXCEPT !.files = [q \in DOMAIN @ \cup {path} |->
                            IF q = path THEN content ELSE @[q]]]

IsUnder(path, dir) ==
    Len(path) >= Len(dir) /\ SubSeq(path, 1, Len(dir)) = dir

Moved(path, from, to) == to \o SubSeq(path, Len(from) + 1, Len(path))

\* rename that moves the directories and loses the files in them
RenameDirBare(fs, from, to) ==
    [dirs  |-> {d \in fs.dirs : ~IsUnder(d, from)}
                   \cup {Moved(d, from, to) : d \in {e \in fs.dirs : IsUnder(e, from)}},
     files |-> [q \in {f \in DOMAIN fs.files : ~IsUnder(f, from)} |-> fs.files[q]]]

\* Path.rename(target) of a directory: the whole subtree moves
RenameDir(fs, from, to) ==
    LET keep == {q \in DOMAIN fs.files : ~IsUnder(q, from)}
        move == {q \in DOMAIN fs.files : IsUnder(q, from)}
        dest == {Moved(q, from, to) : q \in move}
    IN  [dirs  |-> {d \in fs.dirs : ~IsUnder(d, from)}
                   \cup {Moved(d, from, to) : d \in {e \in fs.dirs : IsUnder(e, from)}},
         files |-> [q \in keep \cup dest |->
                      IF q \in dest
                      THEN fs.files[from \o SubSeq(q, Len(to) + 1, Len(q))]
                      ELSE fs.files[q]]]

----------------------------------------------------------------------------
(* _serialization.py                                                       *)

dump(obj) == <<"pickle", obj>>

\* load that hands out the bytes it read, without unpickling them
load_bytes(blob) == blob

load(blob) == blob[2]

ConfigBlob(dir) == Append(dir, <<"config", ".", "pkl">>)

ResultBlob(dir) == Append(dir, <<"result", ".", "pkl">>)

has_config(fs, dir) == Exists(fs, ConfigBlob(dir))

has_result(fs, dir) == Exists(fs, ResultBlob(dir))

\* load_config / load_result: the error raised, "" when the value is loaded;
\* dbg is __debug__, whether the interpreter executes assert statements
LoadError(fs, dir, blob, dbg) ==
    IF dbg /\ ~IsDir(fs, dir) THEN "AssertionError"
    ELSE IF ~Exists(fs, blob) THEN "FileNotFoundError"
    ELSE ""

\* dump_config / dump_result: the error raised, "" when the blob is written
DumpError(fs, dir, dbg) ==
    IF dbg /\ ~Exists(fs, dir) THEN "AssertionError"
    ELSE IF ~IsDir(fs, dir) THEN "FileNotFoundError"
    ELSE ""

----------------------------------------------------------------------------
(* _hook.py                                                                *)

\* the default of the ContextVar: None, no path
NoContext == <<>>

\* dump_dir = path / "data"
DataDir(path) == Append(path, <<"data">>)

\* open(dump_dir / name, mode): "w" makes the file empty, "a" keeps what a
\* file of that name holds
Opened(fs, path, mode) ==
    IF mode = "a" /\ path \in DOMAIN fs.files THEN fs
    ELSE WriteFile(fs, path, <<>>)

----------------------------------------------------------------------------
(* Plotter                                                                 *)

\* a plotter: fn is the artist (the function object), artist its __name__,
\* kind and entries say what it returns, fmt is file_format
SinglePlotter ==
    [fn |-> "f1", artist |-> "a", kind |-> "single", entries |-> <<>>, fmt |-> "pdf"]

MappingPlotter ==
    [fn |-> "f2", artist |-> "b", kind |-> "mapping",
     entries |-> <<"e1", "e2", "e3">>, fmt |-> "pdf"]

\* another function that is named like the artist of SinglePlotter
OtherPlotter ==
    [fn |-> "f3", artist |-> "a", kind |-> "single", entries |-> <<>>, fmt |-> "pdf"]

\* the plotter lists that setup registers
PlotterLists ==
    {<<SinglePlotter>>, <<MappingPlotter>>, <<SinglePlotter, MappingPlotter>>}

\* what savefig stores: the figure the artist drew from (config, result)
Figure(plotter, entry, config, result) ==
    <<"figure", plotter.fn, entry, config, result>>

\* self.artist(config, result): the figures it returns, open in pyplot
Drawn(plotter, config, result) ==
    IF plotter.kind = "mapping"
    THEN {Figure(plotter, plotter.entries[j], config, result) :
             j \in 1..Len(plotter.entries)}
    ELSE {Figure(plotter, "", config, result)}

\* f"{name}.{self.file_format}" in folder
FigureFile(plotter, dir, name) == Append(dir, <<name, ".", plotter.fmt>>)

\* __dump_figure that saves under the first free numbered name when a file
\* of the name is there
dump_figure_unique(ps, plotter, figure, dir, name) ==
    LET path == unique_new_path(ps, FigureFile(plotter, dir, name))
    IN  [ps EXCEPT !.files = WriteFile(ps, path, figure).files,
                   !.written = @ \cup {path},
                   !.open = @ \ {figure}]

\* Plotter.__dump_figure: savefig, then plt.close(figure); ps is the file
\* system, the figures of this call that are open, and the files it wrote
dump_figure(ps, plotter, figure, dir, name) ==
    [ps EXCEPT !.files = WriteFile(ps, FigureFile(plotter, dir, name), figure).files,
               !.written = @ \cup {FigureFile(plotter, dir, name)},
               !.open = @ \ {figure}]

RECURSIVE DumpItems(_, _, _, _, _, _)
DumpItems(ps, plotter, config, result, dir, i) ==
    IF i > Len(plotter.entries) THEN ps
    ELSE DumpItems(dump_figure(ps, plotter,
                               Figure(plotter, plotter.entries[i], config, result),
                               dir, plotter.entries[i]),
                   plotter, config, result, dir, i + 1)

\* Plotter.__call__ that writes the figures of a mapping next to the others
PlotterCallFlat(fs, plotter, config, result, directory) ==
    LET ps == [dirs |-> fs.dirs, files |-> fs.files, written |-> {},
               open |-> Drawn(plotter, config, result)]
    IN  IF plotter.kind = "mapping"
        THEN DumpItems(ps, plotter, config, result, directory, 1)
        ELSE dump_figure(ps, plotter, Figure(plotter, "", config, result),
                         directory, plotter.artist)

\* Plotter.__call__
PlotterCall(fs, plotter, config, result, directory) ==
    LET ps == [dirs |-> fs.dirs, files |-> fs.files, written |-> {},
               open |-> Drawn(plotter, config, result)]
    IN  IF plotter.kind = "mapping"
        THEN DumpItems([ps EXCEPT !.dirs = @ \cup {Append(directory, <<plotter.artist>>)}],
                       plotter, config, result,
                       Append(directory, <<plotter.artist>>), 1)
        ELSE dump_figure(ps, plotter, Figure(plotter, "", config, result),
                         directory, plotter.artist)

\* Plotter.__call__ that raises: in the artist when k = 0, in savefig of
\* its k-th figure otherwise (savefig raises before it writes the file)
PlotterCallRaises(fs, plotter, config, result, directory, k) ==
    LET ps == [dirs |-> fs.dirs, files |-> fs.files, written |-> {}, open |-> {}]
        drawn == [ps EXCEPT !.open = Drawn(plotter, config, result)]
    IN  IF k = 0 THEN ps
        ELSE IF plotter.kind = "mapping"
        THEN DumpItems([drawn EXCEPT !.dirs = @ \cup {Append(directory, <<plotter.artist>>)}],
                       [plotter EXCEPT !.entries = SubSeq(@, 1, k - 1)],
                       config, result,
                       Append(directory, <<plotter.artist>>), 1)
        ELSE drawn

\* the record of one plotter call in the log of a plot generation
Logged(fs, ps, plotter, dir) ==
    [plotter |-> plotter, target |-> dir, written |-> ps.written,
     made |-> ps.dirs \ fs.dirs, open |-> ps.open]

\* the loop of Experiment.plot over the plotters i..n
RECURSIVE PlotLoop(_, _, _, _, _, _, _)
PlotLoop(fs, log, config, result, dir, i, n) ==
    IF i > n THEN [dirs |-> fs.dirs, files |-> fs.files, log |-> log]
    ELSE LET ps == PlotterCall(fs, plotters[i], config, result, dir)
         IN  PlotLoop([dirs |-> ps.dirs, files |-> ps.files],
                      Append(log, Logged(fs, ps, plotters[i], dir)),
                      config, result, dir, i + 1, n)

\* Experiment.plot: every plotter in registration order, into the same folder;
\* the log keeps one record per plotter call
ExperimentPlot(fs, log, config, result, dir, i) ==
    PlotLoop(fs, log, config, result, dir, i, Len(plotters))

\* Experiment.plot in which the call of plotter i raises (as k says)
ExperimentPlotRaises(fs, config, result, dir, i, k) ==
    LET before == PlotLoop(fs, <<>>, config, result, dir, 1, i - 1)
        ps == PlotterCallRaises([dirs |-> before.dirs, files |-> before.files],
                                plotters[i], config, result, dir, k)
    IN  [dirs |-> ps.dirs, files |-> ps.files,
         log |-> Append(before.log,
                        Logged([dirs |-> before.dirs, files |-> before.files],
                               ps, plotters[i], dir))]

----------------------------------------------------------------------------
(* Run                                                                     *)

NoRun == [config |-> "", result |-> "", location |-> <<>>]

MakeRun(config, result, location) ==
    [config |-> config, result |-> result, location |-> location]

PlotsPath(run) == Append(run.location, <<"plots">>)

\* the plot folder made inside <run>/plots
PlotFolderInside(fs, run) == unique_new_path(fs, Append(PlotsPath(run), <<"1">>))

\* the plot folder made with mkdir(exist_ok=True) and no name resolution
PlotFolderReused(fs, run) == PlotsPath(run)

\* Run.__make_plot_folder: the folder it creates
PlotFolder(fs, run) == unique_new_path(fs, PlotsPath(run))

\* Run.plot: the file system after it, and the folder it returns
RunPlot(fs, run) ==
    LET f == PlotFolder(fs, run)
        out == ExperimentPlot(MkdirParents(fs, f), <<>>, run.config, run.result, f, 1)
    IN  [dirs |-> out.dirs, files |-> out.files, log |-> out.log, folder |-> f]

\* Run.plot in which the call of plotter i raises
RunPlotRaises(fs, run, i, k) ==
    LET f == PlotFolder(fs, run)
        out == ExperimentPlotRaises(MkdirParents(fs, f), run.config, run.result, f, i, k)
    IN  [dirs |-> out.dirs, files |-> out.files, log |-> out.log, folder |-> f]

\* the figures that the plotter calls of a plot generation left open
LeftOpen(log) ==
    UNION {{<<log[i].target, fig>> : fig \in log[i].open} : i \in 1..Len(log)}

----------------------------------------------------------------------------
(* Experiment                                                              *)

\* the reference taken as a path, whatever the flag says
FolderVerbatim(ref) == ref.loc

\* Experiment.__folder; a bare name is ref.loc = <<name>>, ref.abs is the
\* flag Location.absolute that turns the string into a Path
Folder(ref) == IF ref.abs THEN ref.loc ELSE Root \o ref.loc

\* __contains__ that is content with one of the blobs
ContainsEither(fs, ref) == has_config(fs, Folder(ref)) \/ has_result(fs, Folder(ref))

\* Experiment.__contains__
Contains(fs, ref) == has_config(fs, Folder(ref)) /\ has_result(fs, Folder(ref))

\* Experiment.__getitem__: the error of the first load that fails
GetItemError(fs, ref, dbg) ==
    IF LoadError(fs, Folder(ref), ConfigBlob(Folder(ref)), dbg) # ""
    THEN LoadError(fs, Folder(ref), ConfigBlob(Folder(ref)), dbg)
    ELSE LoadError(fs, Folder(ref), ResultBlob(Folder(ref)), dbg)

GetItem(fs, ref) ==
    MakeRun(load(fs.files[ConfigBlob(Folder(ref))]),
            load(fs.files[ResultBlob(Folder(ref))]),
            Folder(ref))

\* iterdir() that descends into the folders it finds
SubDirsDeep(fs, dir) == {d \in fs.dirs : IsUnder(d, dir) /\ d # dir}

\* base_folder.iterdir() filtered by is_dir()
SubDirs(fs, dir) == {d \in fs.dirs : Len(d) = Len(dir) + 1 /\ Parent(d) = dir}

\* Experiment.__iter__: the runs the generator yields
Iter(fs) ==
    {GetItem(fs, [abs |-> TRUE, loc |-> item]) :
        item \in {d \in SubDirs(fs, Root) : Contains(fs, [abs |-> TRUE, loc |-> d])}}

\* the wrapped procedure: the results it may return for a config; it is
\* deterministic on "c1" and not on "c2"
ProcResults(c) == IF c = "c1" THEN {"r1"} ELSE Results

----------------------------------------------------------------------------
(* The outcome of an operation, as its caller sees it.                     *)

\* op: the operation; err: the exception that reached the caller ("" when it
\* returned); run, path, ok, runs: the value returned; arg: the reference or
\* run location it was called on; log: the plotter calls it made
Outcome(op, err, arg, run, path, ok, runs, log) ==
    [op |-> op, err |-> err, arg |-> arg, run |-> run, path |-> path,
     ok |-> ok, runs |-> runs, log |-> log]

None(op) == Outcome(op, "", <<>>, NoRun, <<>>, FALSE, {}, <<>>)

Raised(op, err, arg) == Outcome(op, err, arg, NoRun, <<>>, FALSE, {}, <<>>)

Idle(p) == pc[p] = "idle"

\* the run folders the caller's last operation was about
Touched(p) ==
    {d \in {last[p].arg, last[p].run.location} : Len(d) = Len(Root) + 1}

\* the references a caller passes to lookup and contains: the folders of its
\* last operation, by name and by path, and a name that was never used
Refs(p) ==
    {[abs |-> FALSE, loc |-> <<Name(d)>>] : d \in Touched(p)}
    \cup {[abs |-> TRUE, loc |-> d] : d \in Touched(p)}
    \cup {[abs |-> FALSE, loc |-> <<<<"nope">>>>]}

\* plotHist after one more plot generation for the run at loc
Recorded(loc, dir) ==
    plotHist \cup {<<loc, 1 + Cardinality({h \in plotHist : h[1] = loc}), dir>>}

----------------------------------------------------------------------------
(* Actions.                                                                *)

\* the state of a fresh process: no plotter registered, nothing running
InitProcess ==
    /\ now = 0
    /\ plotters = <<>>
    /\ handles = {}
    /\ pc = [p \in Procs |-> "idle"]
    /\ cfg = [p \in Procs |-> ""]
    /\ folder = [p \in Procs |-> <<>>]
    /\ res = [p \in Procs |-> ""]
    /\ src = [p \in Procs |-> NoRun]
    /\ last = [p \in Procs |-> None("none")]
    /\ ops = 0
    /\ plotHist = {}
    /\ stale = {}
    /\ context = [p \in Procs |-> NoContext]
    /\ figures = {}

\* the store is constructed on an empty disk
Init ==
    /\ dirs = {}
    /\ files = <<>>
    /\ InitProcess

\* Experiment.extend_plots: the plotters are registered by one call during
\* setup, before the first run is created
ExtendPlots(p, plots) ==
    /\ Idle(p)
    /\ ops = 0
    /\ plotters = <<>>
    /\ plotters' = plotters \o plots
    /\ last' = [last EXCEPT ![p] = None("extend_plots")]
    /\ UNCHANGED <<dirs, files, now, handles, pc, cfg, folder, res, src, ops,
                   plotHist, stale,
                   context, figures>>

\* Experiment.__call__ is entered and __make_folder reads the clock: t is
\* datetime.now(), no earlier than the clock's previous reading
Enter(p, config, from, t) ==
    /\ Idle(p)
    /\ t \in now..MaxTime
    /\ now' = t
    /\ ops < MaxOps
    /\ ops' = ops + 1
    /\ pc' = [pc EXCEPT ![p] = "mkdir"]
    /\ cfg' = [cfg EXCEPT ![p] = config]
    /\ folder' = [folder EXCEPT ![p] = Append(Root, Timestamp(t))]
    /\ res' = [res EXCEPT ![p] = ""]
    /\ src' = [src EXCEPT ![p] = from]
    /\ last' = [last EXCEPT ![p] = None("create")]
    /\ UNCHANGED <<dirs, files, plotters, handles, plotHist, stale,
                   context, figures>>

\* create(config)
Call(p, config, t) == Enter(p, config, NoRun, t)

\* reproduce that does not pass the stored configuration on
ReproduceAny(p, run, t) ==
    run \in handles /\ \E c \in Configs : Enter(p, c, run, t)

\* Run.reproduce
Reproduce(p, run, t) == run \in handles /\ Enter(p, run.config, run, t)

\* the exception err leaves __call__
Raise(p, err) ==
    /\ pc' = [pc EXCEPT ![p] = "idle"]
    /\ last' = [last EXCEPT ![p] = Raised("create", err, folder[p])]

\* MakeFolder with exist_ok=True: an existing folder is taken over
MakeFolderExistOk(p) ==
    /\ pc[p] = "mkdir"
    /\ dirs' = MkdirParents(FS, folder[p]).dirs
    /\ pc' = [pc EXCEPT ![p] = "dump_config"]
    /\ UNCHANGED <<files, now, plotters, handles, cfg, folder, res, src, last,
                   ops, plotHist, stale,
                   context, figures>>

\* folder.mkdir(parents=True, exist_ok=False)
MakeFolder(p) ==
    /\ pc[p] = "mkdir"
    /\ IF Exists(FS, folder[p])
       THEN /\ Raise(p, "FileExistsError")
            /\ UNCHANGED dirs
       ELSE /\ dirs' = MkdirParents(FS, folder[p]).dirs
            /\ pc' = [pc EXCEPT ![p] = "dump_config"]
            /\ UNCHANGED last
    /\ UNCHANGED <<files, now, plotters, handles, cfg, folder, res, src, ops,
                   plotHist, stale,
                   context, figures>>

\* DumpConfig that leaves the writing for later: the procedure runs first
DumpConfigLate(p, dbg) ==
    /\ pc[p] = "dump_config"
    /\ pc' = [pc EXCEPT ![p] = "procedure"]
    /\ UNCHANGED <<dirs, files, now, plotters, handles, cfg, folder, res, src,
                   last, ops, plotHist, stale,
                   context, figures>>

\* dump_config(config, folder)
DumpConfig(p, dbg) ==
    /\ pc[p] = "dump_config"
    /\ IF DumpError(FS, folder[p], dbg) # ""
       THEN /\ Raise(p, DumpError(FS, folder[p], dbg))
            /\ UNCHANGED files
       ELSE /\ files' = WriteFile(FS, ConfigBlob(folder[p]), dump(cfg[p])).files
            /\ pc' = [pc EXCEPT ![p] = "procedure"]
            /\ UNCHANGED last
    /\ UNCHANGED <<dirs, now, plotters, handles, cfg, folder, res, src, ops,
                   plotHist, stale,
                   context, figures>>

\* result = self.procedure(config): it returns
ProcedureReturns(p) ==
    /\ pc[p] = "procedure"
    /\ \E r \in ProcResults(cfg[p]) : res' = [res EXCEPT ![p] = r]
    /\ pc' = [pc EXCEPT ![p] = "dump_result"]
    /\ UNCHANGED <<dirs, files, now, plotters, handles, cfg, folder, src, last,
                   ops, plotHist, stale,
                   context, figures>>

\* ProcedureRaises with a cleanup handler that removes the run folder
ProcedureRaisesCleanup(p) ==
    /\ pc[p] = "procedure"
    /\ \E e \in Failures : Raise(p, e)
    /\ dirs' = {d \in dirs : ~IsUnder(d, folder[p])}
    /\ files' = [q \in {f \in DOMAIN files : ~IsUnder(f, folder[p])} |-> files[q]]
    /\ UNCHANGED <<now, plotters, handles, cfg, folder, res, src, ops,
                   plotHist, stale,
                   context, figures>>

\* result = self.procedure(config): it raises
ProcedureRaises(p) ==
    /\ pc[p] = "procedure"
    /\ \E e \in Failures : Raise(p, e)
    /\ UNCHANGED <<dirs, files, now, plotters, handles, cfg, folder, res, src,
                   ops, plotHist, stale,
                   context, figures>>

\* dump_result(result, folder)
DumpResult(p, dbg) ==
    /\ pc[p] = "dump_result"
    /\ IF DumpError(FS, folder[p], dbg) # ""
       THEN /\ Raise(p, DumpError(FS, folder[p], dbg))
            /\ UNCHANGED files
       ELSE /\ files' = WriteFile(FS, ResultBlob(folder[p]), dump(res[p])).files
            /\ pc' = [pc EXCEPT ![p] = "plot"]
            /\ UNCHANGED last
    /\ UNCHANGED <<dirs, now, plotters, handles, cfg, folder, res, src, ops,
                   plotHist, stale,
                   context, figures>>

\* run = Run(...); if self.plotters: run.plot(); return run
PlotAndReturn(p) ==
    LET run == MakeRun(cfg[p], res[p], folder[p])
        out == RunPlot(FS, run)
    IN  /\ pc[p] = "plot"
        /\ pc' = [pc EXCEPT ![p] = "idle"]
        /\ handles' = handles \cup {run}
        /\ IF plotters # <<>>
           THEN /\ dirs' = out.dirs
                /\ files' = out.files
                /\ figures' = figures \cup LeftOpen(out.log)
                /\ plotHist' = Recorded(run.location, out.folder)
                /\ last' = [last EXCEPT ![p] =
                              Outcome("create", "", folder[p], run, out.folder,
                                      TRUE, {}, out.log)]
           ELSE /\ UNCHANGED <<dirs, files, plotHist, figures>>
                /\ last' = [last EXCEPT ![p] =
                              Outcome("create", "", folder[p], run, <<>>,
                                      TRUE, {}, <<>>)]
        /\ UNCHANGED <<now, plotters, cfg, folder, res, src, ops, stale, context>>

\* Run.plot whose mkdir has parents=False: it fails when the run folder is
\* not there
PlotRunNoParents(p, run) ==
    LET out == RunPlot(FS, run)
    IN  /\ Idle(p)
        /\ run \in handles
        /\ ops < MaxOps
        /\ ops' = ops + 1
        /\ IF ~IsDir(FS, run.location)
           THEN /\ last' = [last EXCEPT ![p] =
                              Raised("plot", "FileNotFoundError", run.location)]
                /\ UNCHANGED <<dirs, files, figures, plotHist>>
           ELSE /\ dirs' = out.dirs
                /\ files' = out.files
                /\ figures' = figures \cup LeftOpen(out.log)
                /\ plotHist' = Recorded(run.location, out.folder)
                /\ last' = [last EXCEPT ![p] =
                              Outcome("plot", "", run.location, run, out.folder,
                                      TRUE, {}, out.log)]
        /\ UNCHANGED <<now, plotters, handles, pc, cfg, folder, res, src, stale,
                       context>>

\* Run.plot
PlotRun(p, run) ==
    LET out == RunPlot(FS, run)
    IN  /\ Idle(p)
        /\ run \in handles
        /\ ops < MaxOps
        /\ ops' = ops + 1
        /\ dirs' = out.dirs
        /\ files' = out.files
        /\ figures' = figures \cup LeftOpen(out.log)
        /\ plotHist' = Recorded(run.location, out.folder)
        /\ last' = [last EXCEPT ![p] =
                      Outcome("plot", "", run.location, run, out.folder, TRUE,
                              {}, out.log)]
        /\ UNCHANGED <<now, plotters, handles, pc, cfg, folder, res, src, stale,
                       context>>

\* Run.rename that moves the folder onto the name as given, replacing
\* what is there
RenameRunOver(p, run, name) ==
    LET to == Append(Parent(run.location), name)
        free == [dirs  |-> {d \in dirs : ~IsUnder(d, to)},
                 files |-> [q \in {f \in DOMAIN files : ~IsUnder(f, to)} |-> files[q]]]
        out == RenameDir(free, run.location, to)
    IN  /\ Idle(p)
        /\ run \in handles
        /\ ops < MaxOps
        /\ ops' = ops + 1
        /\ Exists(FS, run.location)
        /\ dirs' = out.dirs
        /\ files' = out.files
        /\ handles' = handles \cup {MakeRun(run.config, run.result, to)}
        /\ stale' = stale \cup {run.location}
        /\ last' = [last EXCEPT ![p] =
                      Outcome("rename", "", run.location,
                              MakeRun(run.config, run.result, to), to,
                              TRUE, {}, <<>>)]
        /\ UNCHANGED <<now, plotters, pc, cfg, folder, res, src, plotHist,
                       context, figures>>

\* Run.rename
RenameRun(p, run, name) ==
    LET to == unique_new_path(FS, Append(Parent(run.location), name))
        out == RenameDir(FS, run.location, to)
    IN  /\ Idle(p)
        /\ run \in handles
        /\ ops < MaxOps
        /\ ops' = ops + 1
        /\ IF ~Exists(FS, run.location)
           THEN /\ last' = [last EXCEPT ![p] =
                              Raised("rename", "FileNotFoundError", run.location)]
                /\ UNCHANGED <<dirs, files, handles, stale>>
           ELSE /\ dirs' = out.dirs
                /\ files' = out.files
                /\ handles' = handles \cup {MakeRun(run.config, run.result, to)}
                /\ stale' = stale \cup {run.location}
                /\ last' = [last EXCEPT ![p] =
                              Outcome("rename", "", run.location,
                                      MakeRun(run.config, run.result, to), to,
                                      TRUE, {}, <<>>)]
        /\ UNCHANGED <<now, plotters, pc, cfg, folder, res, src, plotHist,
                       context, figures>>

\* lookup, contains and iterate change nothing on disk, so what one of them
\* returns does not depend on the queries before it: a caller's queries are
\* modelled one at a time between its other operations
Queries == {"lookup", "contains", "iterate"}

CanQuery(p) == Idle(p) /\ last[p].op \notin Queries

\* Experiment.__getitem__
Lookup(p, ref, dbg) ==
    /\ CanQuery(p)
    /\ IF GetItemError(FS, ref, dbg) # ""
       THEN /\ last' = [last EXCEPT ![p] =
                          Raised("lookup", GetItemError(FS, ref, dbg), Folder(ref))]
            /\ UNCHANGED handles
       ELSE /\ handles' = handles \cup {GetItem(FS, ref)}
            /\ last' = [last EXCEPT ![p] =
                          Outcome("lookup", "", Folder(ref), GetItem(FS, ref),
                                  <<>>, TRUE, {}, <<>>)]
    /\ UNCHANGED <<dirs, files, now, plotters, pc, cfg, folder, res, src, ops,
                   plotHist, stale,
                   context, figures>>

\* Experiment.__contains__
ContainsCall(p, ref) ==
    /\ CanQuery(p)
    /\ last' = [last EXCEPT ![p] =
                  Outcome("contains", "", Folder(ref), NoRun, <<>>,
                          Contains(FS, ref), {}, <<>>)]
    /\ UNCHANGED <<dirs, files, now, plotters, handles, pc, cfg, folder, res,
                   src, ops, plotHist, stale,
                   context, figures>>

\* Experiment.__iter__, run to exhaustion
Iterate(p) ==
    /\ CanQuery(p)
    /\ IF ~IsDir(FS, Root)
       THEN last' = [last EXCEPT ![p] =
                       Raised("iterate", "FileNotFoundError", Root)]
       ELSE last' = [last EXCEPT ![p] =
                       Outcome("iterate", "", Root, NoRun, <<>>, TRUE,
                               Iter(FS), <<>>)]
    /\ UNCHANGED <<dirs, files, now, plotters, handles, pc, cfg, folder, res,
                   src, ops, plotHist, stale,
                   context, figures>>

\* the steps of a running __call__
Step(p) ==
    \/ MakeFolder(p)
    \/ \E dbg \in BOOLEAN : DumpConfig(p, dbg)
    \/ ProcedureReturns(p)
    \/ ProcedureRaises(p)
    \/ \E dbg \in BOOLEAN : DumpResult(p, dbg)
    \/ PlotAndReturn(p)

\* a single caller: every operation runs to completion before the next
Next ==
    \/ \E plots \in PlotterLists : ExtendPlots("p1", plots)
    \/ \E c \in Configs, t \in 0..MaxTime : Call("p1", c, t)
    \/ \E run \in handles, t \in 0..MaxTime : Reproduce("p1", run, t)
    \/ Step("p1")
    \/ \E run \in handles : PlotRun("p1", run)
    \/ \E run \in handles, name \in RenameNames : RenameRun("p1", run, name)
    \/ \E ref \in Refs("p1"), dbg \in BOOLEAN : Lookup("p1", ref, dbg)
    \/ \E ref \in Refs("p1") : ContainsCall("p1", ref)
    \/ Iterate("p1")

Spec == Init /\ [][Next]_vars

\* two callers whose create calls interleave
NextConc ==
    \/ \E p \in Procs, c \in Configs, t \in 0..MaxTime : Call(p, c, t)
    \/ \E p \in Procs : Step(p)

SpecConc == Init /\ [][NextConc]_vars

----------------------------------------------------------------------------
(* create with a procedure that opens the hook and with plotters that may  *)
(* raise.                                                                  *)

HookNames == {<<"log", ".", "txt">>}
HookModes == {"w", "a"}

\* plotter lists in which two plotters write the same file name
ClashLists == {<<SinglePlotter, OtherPlotter>>, <<OtherPlotter, SinglePlotter>>}

PlotFailures == {"ArtistError", "SavefigError"}

\* the procedure enters `with hook(name, mode)`; it does not handle the
\* ValueError of hook, which ends the procedure and leaves __call__
ProcedureHook(p, name, mode) ==
    /\ pc[p] = "procedure"
    /\ IF context[p] = NoContext
       THEN /\ Raise(p, "ValueError")
            /\ UNCHANGED <<dirs, files>>
       ELSE /\ dirs' = MkdirParents(FS, DataDir(context[p])).dirs
            /\ files' = Opened(FS, Append(DataDir(context[p]), name), mode).files
            /\ UNCHANGED <<pc, last>>
    /\ UNCHANGED <<now, plotters, handles, cfg, folder, res, src, ops,
                   plotHist, stale, context, figures>>

\* the number of figures the artist of a plotter returns
FigureCount(plotter) == Cardinality(Drawn(plotter, "", ""))

\* PlotRaises with a handler that removes the run folder before it re-raises
PlotRaisesCleanup(p, i, k) ==
    /\ pc[p] = "plot"
    /\ i \in 1..Len(plotters)
    /\ k \in 0..FigureCount(plotters[i])
    /\ dirs' = {d \in dirs : ~IsUnder(d, folder[p])}
    /\ files' = [q \in {f \in DOMAIN files : ~IsUnder(f, folder[p])} |-> files[q]]
    /\ Raise(p, IF k = 0 THEN "ArtistError" ELSE "SavefigError")
    /\ UNCHANGED <<now, plotters, handles, cfg, folder, res, src, ops, stale,
                   context, figures, plotHist>>

\* run = Run(...); run.plot() raises in the call of plotter i: the failure
\* leaves __call__, which returns no run
PlotRaises(p, i, k) ==
    LET run == MakeRun(cfg[p], res[p], folder[p])
        out == RunPlotRaises(FS, run, i, k)
    IN  /\ pc[p] = "plot"
        /\ i \in 1..Len(plotters)
        /\ k \in 0..FigureCount(plotters[i])
        /\ dirs' = out.dirs
        /\ files' = out.files
        /\ figures' = figures \cup LeftOpen(out.log)
        /\ plotHist' = Recorded(run.location, out.folder)
        /\ Raise(p, IF k = 0 THEN "ArtistError" ELSE "SavefigError")
        /\ UNCHANGED <<now, plotters, handles, cfg, folder, res, src, ops, stale,
                       context>>

NextFaulty ==
    \/ \E plots \in PlotterLists \cup ClashLists : ExtendPlots("p1", plots)
    \/ \E c \in Configs, t \in 0..MaxTime : Call("p1", c, t)
    \/ Step("p1")
    \/ \E name \in HookNames, mode \in HookModes : ProcedureHook("p1", name, mode)
    \/ \E i \in 1..Len(plotters) :
          \E k \in 0..FigureCount(plotters[i]) : PlotRaises("p1", i, k)

SpecFaulty == Init /\ [][NextFaulty]_vars

----------------------------------------------------------------------------
(* Properties of create.                                                   *)

\* the caller's running or last create call got past folder creation
PastMkdir(p) ==
    \/ pc[p] \in {"dump_config", "procedure", "dump_result", "plot"}
    \/ /\ Idle(p)
       /\ last[p].op = "create"
       /\ last[p].err # "FileExistsError"

\* the step in which caller p finds its folder name taken
Collides(p) == pc[p] = "mkdir" /\ pc'[p] # "mkdir" /\ Exists(FS, folder[p])

\* every file of the disk is still there, with the same content
FilesKept ==
    \A q \in DOMAIN files : q \in DOMAIN files' /\ files'[q] = files[q]

\* C1: of two create calls that compute the same folder name at most one
\* gets past folder creation; the other fails with FileExistsError (the
\* Collision error) without writing anything, its call is over (no retry,
\* no other name is tried), and no step of any create call changes a file
\* that is already on disk.
C1_CreationUniqueness ==
    /\ [](\A p, q \in Procs :
            p # q /\ PastMkdir(p) /\ PastMkdir(q) => folder[p] # folder[q])
    /\ [][/\ \A p \in Procs :
               Collides(p) =>
                   /\ last'[p].err = "FileExistsError"
                   /\ last'[p].run = NoRun
                   /\ Idle(p)'
                   /\ dirs' = dirs
                   /\ files' = files
           /\ FilesKept]_vars

\* one create call has collided with another that wrote its config blob
C1_Witness ==
    \E p, q \in Procs :
        /\ p # q
        /\ Idle(p) /\ last[p].op = "create" /\ last[p].err = "FileExistsError"
        /\ PastMkdir(q)
        /\ folder[p] = folder[q]
        /\ cfg[p] # cfg[q]
        /\ has_config(FS, folder[q])
        /\ files[ConfigBlob(folder[q])] = dump(cfg[q])

\* the run that create(config) returned or is about to return
Made(p) == MakeRun(cfg[p], res[p], folder[p])

Returned(p) == Idle(p) /\ last[p].op = "create" /\ last[p].err = ""

Holds(path, content) == path \in DOMAIN files /\ files[path] = content

\* C2: the steps of a create call happen in the order folder, config blob,
\* procedure, result blob, plots, return: while the procedure runs and after
\* it the config blob is in the run folder; the result blob is there only
\* once the procedure has returned; plots come after the result; the run is
\* returned after all of them.
C2_CreateOrder ==
    \A p \in Procs :
        /\ pc[p] \in {"dump_config", "procedure", "dump_result", "plot"} =>
               /\ folder[p] \in dirs
               /\ ~Exists(FS, PlotsPath(Made(p)))
        /\ pc[p] = "dump_config" => ~has_config(FS, folder[p])
        /\ pc[p] \in {"procedure", "dump_result", "plot"} =>
               Holds(ConfigBlob(folder[p]), dump(cfg[p]))
        /\ pc[p] \in {"dump_config", "procedure", "dump_result"} =>
               ~has_result(FS, folder[p])
        /\ pc[p] = "plot" => Holds(ResultBlob(folder[p]), dump(res[p]))
        /\ Idle(p) /\ last[p].op = "create" /\ last[p].err \in Failures =>
               /\ Holds(ConfigBlob(folder[p]), dump(cfg[p]))
               /\ ~has_result(FS, folder[p])
        /\ Returned(p) =>
               /\ last[p].run = Made(p)
               /\ Holds(ConfigBlob(folder[p]), dump(cfg[p]))
               /\ Holds(ResultBlob(folder[p]), dump(res[p]))
               /\ plotters # <<>> =>
                      /\ last[p].path \in dirs
                      /\ Len(last[p].log) = Len(plotters)
                      /\ \A i \in 1..Len(last[p].log) :
                             last[p].log[i].written \subseteq DOMAIN files

\* a create call has returned a run after writing both blobs and the plots
C2_Witness ==
    /\ Returned("p1")
    /\ plotters # <<>>
    /\ Holds(ResultBlob(folder["p1"]), dump(res["p1"]))
    /\ last["p1"].path \in dirs

\* the step in which the procedure of caller p raises
Fails(p) == pc[p] = "procedure" /\ Idle(p)'

\* C3: when the procedure raises, its failure reaches the caller of create
\* as it is, no run is returned, and the run folder stays as it was: with
\* the config blob, without a result blob and without plots.
C3_ProcedureFailure ==
    [][\A p \in Procs :
          Fails(p) =>
              /\ last'[p].op = "create"
              /\ last'[p].err \in Failures
              /\ last'[p].run = NoRun
              /\ handles' = handles
              /\ dirs' = dirs
              /\ files' = files
              /\ folder[p] \in dirs'
              /\ ConfigBlob(folder[p]) \in DOMAIN files'
              /\ files'[ConfigBlob(folder[p])] = dump(cfg[p])
              /\ {q \in DOMAIN files' : IsUnder(q, folder[p])} = {ConfigBlob(folder[p])}
              /\ {d \in dirs' : IsUnder(d, folder[p])} = {folder[p]}]_vars

\* a create call has ended with the procedure's failure
C3_Witness ==
    /\ Idle("p1")
    /\ last["p1"].op = "create"
    /\ last["p1"].err \in Failures
    /\ has_config(FS, folder["p1"])
    /\ ~has_result(FS, folder["p1"])

----------------------------------------------------------------------------
(* The store is opened on a directory that earlier processes (or the user) *)
(* left behind: every run folder may hold any subset of the two blobs, and *)
(* complete run folders may lie outside the store and inside a run folder. *)

OldRuns == {Append(Root, <<"a">>), Append(Root, <<"b">>)}

\* a run folder "a" in the working directory, and one inside the folder of b
OutsideRuns == {<<<<"a">>>>, Append(Append(Root, <<"b">>), <<"a">>)}

BlobsOf(d) == {ConfigBlob(d), ResultBlob(d)}

InitDisk ==
    /\ \E present \in SUBSET OldRuns, outside \in SUBSET OutsideRuns :
         /\ dirs = UNION {Prefixes(d) : d \in present \cup outside}
         /\ \E blobs \in SUBSET UNION {BlobsOf(d) : d \in present} :
              files = [q \in blobs \cup UNION {BlobsOf(d) : d \in outside} |->
                         IF Name(q) = Name(ConfigBlob(Root))
                         THEN dump(IF Parent(q) \in outside THEN "c2" ELSE "c1")
                         ELSE dump(IF Parent(q) \in outside THEN "r2" ELSE "r1")]
    /\ InitProcess

\* the references to the folders ds, by name and by path
RefsOf(ds) ==
    {[abs |-> FALSE, loc |-> <<Name(d)>>] : d \in ds}
    \cup {[abs |-> TRUE, loc |-> d] : d \in ds}

\* every reference to a folder of the store
StoreRefs == RefsOf(SubDirs(FS, Root))

\* every reference to a folder of the store or to a run folder outside it,
\* and a name that is not there
AllRefs ==
    StoreRefs \cup RefsOf(OutsideRuns \cap dirs)
    \cup {[abs |-> FALSE, loc |-> <<<<"nope">>>>]}

NextQuery ==
    \/ \E ref \in AllRefs, dbg \in BOOLEAN : Lookup("p1", ref, dbg)
    \/ \E ref \in AllRefs : ContainsCall("p1", ref)
    \/ Iterate("p1")

SpecQuery == InitDisk /\ [][NextQuery]_vars

\* the runs of such a store are looked up, renamed, to a new name and to
\* the names of the folders that were there, and iterated
NextRename ==
    \/ \E ref \in StoreRefs, dbg \in BOOLEAN : Lookup("p1", ref, dbg)
    \/ Iterate("p1")
    \/ \E run \in handles, name \in RenameNames \cup {Name(d) : d \in OldRuns} :
          RenameRun("p1", run, name)

SpecRename == InitDisk /\ [][NextRename]_vars

----------------------------------------------------------------------------
(* unique_new_path on a directory that holds any subset of the names it    *)
(* can produce.                                                            *)

Here == <<<<"dir">>>>

TakenNames ==
    { <<"x">>, <<"x", " (1)">>, <<"x", " (2)">>,
      <<"x", ".", "e">>, <<"x", " (1)", ".", "e">>, <<"x", " (1)", " (1)">> }

WantedNames == { <<"x">>, <<"x", ".", "e">>, <<"x", " (1)">>, <<".", "x">> }

InitNames ==
    /\ \E taken \in SUBSET TakenNames :
         dirs = {Here} \cup {Append(Here, n) : n \in taken}
    /\ files = <<>>
    /\ InitProcess

\* a caller resolves a name
Resolve(p, path) ==
    /\ last[p].op = "none"
    /\ last' = [last EXCEPT ![p] =
                  Outcome("resolve", "", path, NoRun, unique_new_path(FS, path),
                          TRUE, {}, <<>>)]
    /\ UNCHANGED <<dirs, files, now, plotters, handles, pc, cfg, folder, res,
                   src, ops, plotHist, stale,
                   context, figures>>

NextResolve == \E n \in WantedNames : Resolve("p1", Append(Here, n))

SpecResolve == InitNames /\ [][NextResolve]_vars

----------------------------------------------------------------------------
(* Properties of lookup, contains and iterate.                             *)

Valid(d) == has_config(FS, d) /\ has_result(FS, d)

RefsTo(d) == {[abs |-> FALSE, loc |-> <<Name(d)>>], [abs |-> TRUE, loc |-> d]}

\* C4: a run folder that lacks the result blob or the config blob is not
\* yielded by iterate, contains is false for it, and lookup of it fails with
\* FileNotFoundError (the NotFound error), returning no run.
C4_IterationValidity ==
    /\ \A d \in SubDirs(FS, Root) :
          ~Valid(d) =>
              /\ \A ref \in RefsTo(d) :
                    /\ ~Contains(FS, ref)
                    /\ \A dbg \in BOOLEAN :
                          GetItemError(FS, ref, dbg) = "FileNotFoundError"
              /\ \A run \in Iter(FS) : run.location # d
    /\ \A p \in Procs :
          /\ last[p].op = "lookup" /\ last[p].arg \in dirs /\ ~Valid(last[p].arg) =>
                /\ last[p].err = "FileNotFoundError"
                /\ last[p].run = NoRun
          /\ last[p].op = "contains" /\ ~Valid(last[p].arg) => ~last[p].ok
          /\ last[p].op = "iterate" =>
                \A run \in last[p].runs : Valid(run.location)

\* lookup has failed on a folder that holds a config blob and no result blob
C4_Witness ==
    /\ last["p1"].op = "lookup"
    /\ last["p1"].err = "FileNotFoundError"
    /\ has_config(FS, last["p1"].arg)
    /\ ~has_result(FS, last["p1"].arg)

\* C5: lookup of a reference whose folder does not exist fails with
\* FileNotFoundError, the error of a missing blob, and with no other error.
C5_LookupMissingFolder ==
    \A p \in Procs :
        last[p].op = "lookup" /\ last[p].arg \notin dirs =>
            last[p].err = "FileNotFoundError"

\* the last create call of caller p returned a run, and no rename has moved
\* its folder away since
Kept(p) == Made(p) \in handles /\ folder[p] \notin stale

\* C13: when create(c) has returned a run at L with result r, and as long as
\* no rename has moved L away, contains(L) is true and lookup(L) returns
\* the run with configuration c and result r at L: what load reads from
\* each blob is the value that dump wrote.
C13_StoreRoundTrip ==
    \A p \in Procs :
        /\ Returned(p) =>
              /\ load(dump(cfg[p])) = cfg[p]
              /\ load(dump(res[p])) = res[p]
              /\ \A ref \in RefsTo(folder[p]) :
                    /\ Contains(FS, ref)
                    /\ \A dbg \in BOOLEAN : GetItemError(FS, ref, dbg) = ""
                    /\ GetItem(FS, ref) = MakeRun(cfg[p], res[p], folder[p])
        /\ Kept(p) /\ last[p].arg = folder[p] =>
              /\ last[p].op = "lookup" =>
                    last[p].err = "" /\ last[p].run = MakeRun(cfg[p], res[p], folder[p])
              /\ last[p].op = "contains" => last[p].ok

\* lookup has returned the run that a create call made from c2 and r2
C13_Witness ==
    /\ last["p1"].op = "lookup"
    /\ last["p1"].err = ""
    /\ last["p1"].run = MakeRun("c2", "r2", folder["p1"])
    /\ cfg["p1"] = "c2" /\ res["p1"] = "r2"
    /\ files[ResultBlob(folder["p1"])] = dump("r2")

\* the immediate subfolders of the store root that hold both blobs
ValidFolders ==
    {d \in dirs : Len(d) = Len(Root) + 1 /\ Parent(d) = Root /\ Valid(d)}

\* the run that the blobs of folder d hold
Stored(d) == MakeRun(load(files[ConfigBlob(d)]), load(files[ResultBlob(d)]), d)

\* C16: iterate yields one run for each immediate subfolder of the store
\* root that holds both blobs, with what the blobs hold, and nothing else;
\* these are the subfolders for which contains is true; the pass is what a
\* new pass over the store as it is yields; the step changes nothing on
\* disk; and the only failure is a store root that does not exist.
C16_IterateValidRuns ==
    /\ [](\A p \in Procs :
             last[p].op = "iterate" =>
                 IF last[p].err # ""
                 THEN Root \notin dirs /\ last[p].runs = {}
                 ELSE /\ last[p].runs = {Stored(d) : d \in ValidFolders}
                      /\ Cardinality(last[p].runs) = Cardinality(ValidFolders)
                      /\ \A d \in SubDirs(FS, Root) :
                            \A ref \in RefsTo(d) :
                                Contains(FS, ref) <=> d \in ValidFolders
                      /\ last[p].runs = Iter(FS))
    /\ [][\A p \in Procs :
             last'[p].op = "iterate" /\ last[p].op # "iterate" =>
                 dirs' = dirs /\ files' = files]_vars

\* after a rename, iterate has yielded the renamed run and nothing for a
\* folder with one blob or for the run folder inside it
C16_Witness ==
    /\ last["p1"].op = "iterate"
    /\ last["p1"].runs = {MakeRun("c1", "r1", Append(Root, <<"y">>))}
    /\ ops = 1
    /\ has_config(FS, Append(Root, <<"b">>))
    /\ Valid(Append(Append(Root, <<"b">>), <<"a">>))

\* C17: a reference is resolved in one way: a bare name to the folder of
\* that name in the store, a path to the path itself.  lookup and contains
\* succeed exactly when that one folder holds both blobs, whatever other
\* folders of the name exist, and lookup returns the run of that folder.
C17_ReferenceResolution ==
    /\ \A ref \in AllRefs :
          LET d == IF ref.abs THEN ref.loc ELSE Append(Root, ref.loc[1])
          IN  /\ Contains(FS, ref) <=> Valid(d)
              /\ \A dbg \in BOOLEAN : GetItemError(FS, ref, dbg) = "" <=> Valid(d)
              /\ Valid(d) => GetItem(FS, ref) = Stored(d)
    /\ \A p \in Procs :
          last[p].op = "lookup" =>
              /\ last[p].err = "" <=> Valid(last[p].arg)
              /\ last[p].err = "" => last[p].run = Stored(last[p].arg)

\* lookup of the bare name "a" has failed: the store has no folder a, while
\* the working directory has a complete run folder a
C17_Witness ==
    /\ last["p1"].op = "lookup"
    /\ last["p1"].err # ""
    /\ last["p1"].arg = Append(Root, <<"a">>)
    /\ last["p1"].arg \notin dirs
    /\ Root \in dirs
    /\ Valid(<<<<"a">>>>)

----------------------------------------------------------------------------
(* Properties of unique_new_path.                                          *)

\* name followed by the counter suffix " (n)"
WithCounter(name, n) == Append(name, " (" \o ToString(n) \o ")")

HasDot(name) == \E i \in 1..Len(name) : name[i] = "."

\* C6: resolve(p) returns p when p does not exist; otherwise p numbered
\* with the smallest n >= 1 whose name does not exist: the result never
\* exists, and every lower-numbered name does.  A name without extension is
\* numbered by appending " (n)" to it.
C6_Resolver ==
    \A p \in Procs :
        last[p].op = "resolve" =>
            LET want == last[p].arg
                got  == last[p].path
            IN  /\ ~Exists(FS, got)
                /\ ~Exists(FS, want) => got = want
                /\ Exists(FS, want) =>
                      \E n \in 1..(Cardinality(dirs) + 1) :
                          /\ got = Numbered(want, n)
                          /\ ~HasDot(Name(want)) =>
                                got = Append(Parent(want), WithCounter(Name(want), n))
                          /\ \A m \in 1..(n - 1) : Exists(FS, Numbered(want, m))

\* a name was resolved to its second numbered name
C6_Witness ==
    /\ last["p1"].op = "resolve"
    /\ Exists(FS, last["p1"].arg)
    /\ Exists(FS, Numbered(last["p1"].arg, 1))
    /\ last["p1"].path = Numbered(last["p1"].arg, 2)

----------------------------------------------------------------------------
(* Properties of rename.                                                   *)

\* the step in which a rename call of caller p moves a folder
Renames(p) == last'[p].op = "rename" /\ last'[p].err = "" /\ ops' = ops + 1

\* C11: rename never overwrites: the run folder goes to the wanted name when
\* nothing has it and otherwise to the first free numbered name "y (n)";
\* the destination did not exist; every folder and file outside the run
\* folder is still there with its content; the run returned is bound to the
\* destination, which holds the blobs of the run; the old location is gone.
C11_RenameSafety ==
    [][\A p \in Procs :
          Renames(p) =>
              LET from == last'[p].arg
                  to   == last'[p].path
              IN  /\ ~Exists(FS, to)
                  /\ \E name \in RenameNames \cup {Name(d) : d \in OldRuns} :
                        LET want == Append(Parent(from), name)
                        IN  IF ~Exists(FS, want) THEN to = want
                            ELSE \E n \in 1..MaxOps :
                                    /\ to = Append(Parent(from), WithCounter(name, n))
                                    /\ \A m \in 1..(n - 1) :
                                          Exists(FS, Append(Parent(from), WithCounter(name, m)))
                  /\ \A d \in dirs : ~IsUnder(d, from) => d \in dirs'
                  /\ \A q \in DOMAIN files :
                        ~IsUnder(q, from) => q \in DOMAIN files' /\ files'[q] = files[q]
                  /\ last'[p].run.location = to
                  /\ to \in dirs'
                  /\ \A blob \in {ConfigBlob(to), ResultBlob(to)} : blob \in DOMAIN files'
                  /\ files'[ConfigBlob(to)] = files[ConfigBlob(from)]
                  /\ files'[ResultBlob(to)] = files[ResultBlob(from)]
                  /\ load(files'[ConfigBlob(to)]) = last'[p].run.config
                  /\ load(files'[ResultBlob(to)]) = last'[p].run.result
                  /\ from \notin dirs'
                  /\ \A q \in DOMAIN files' : ~IsUnder(q, from)]_vars

\* a run was renamed to "y" while another run had that name: it is "y (1)"
C11_Witness ==
    /\ last["p1"].op = "rename"
    /\ last["p1"].err = ""
    /\ last["p1"].path = Append(Root, <<"y", " (1)">>)
    /\ has_config(FS, Append(Root, <<"y">>))
    /\ has_config(FS, last["p1"].path)
    /\ last["p1"].arg \notin dirs

\* the step in which the create call of caller p writes its result blob
DumpsResult(p) == pc[p] = "dump_result" /\ pc'[p] = "plot"

\* the run that the blobs of folder d hold after the step
StoredAfter(d) ==
    MakeRun(load(files'[ConfigBlob(d)]), load(files'[ResultBlob(d)]), d)

\* every valid run folder except those in gone is one after the step, with
\* the same configuration and result
RunsKept(gone) ==
    \A d \in ValidFolders \ gone :
        /\ d \in ValidFolders'
        /\ StoredAfter(d) = Stored(d)

\* what a step that changes the disk does to the valid runs
ValidRunsStep ==
    \/ dirs' = dirs /\ files' = files
    \/ /\ FilesKept \/ (\E q \in Procs : Renames(q))
       /\ IF (\E q \in Procs : DumpsResult(q))
          THEN \A p \in Procs :
                   DumpsResult(p) =>
                       /\ ValidFolders' = ValidFolders \cup {folder[p]}
                       /\ RunsKept({})
          ELSE IF (\E q \in Procs : Renames(q))
          THEN \A p \in Procs :
                   Renames(p) =>
                       LET from == last'[p].arg
                           to   == last'[p].path
                           kept == ValidFolders \ {from}
                       IN  /\ RunsKept({from})
                           /\ to \notin ValidFolders
                           /\ IF from \in ValidFolders
                              THEN /\ ValidFolders' = kept \cup {to}
                                   /\ StoredAfter(to).config = Stored(from).config
                                   /\ StoredAfter(to).result = Stored(from).result
                              ELSE ValidFolders' = kept
          ELSE /\ ValidFolders' = ValidFolders
               /\ RunsKept({})

\* C18: no step loses or alters a valid run.  The valid runs grow by the
\* run of a create (or reproduce) call in the step that writes its result
\* blob, once for every call that returns; a rename step moves one folder
\* and keeps the configuration and result in it; every other step, in
\* particular of plot, lookup, contains and iterate, leaves the valid runs
\* and every file on disk as they were.
C18_RunsPreserved ==
    /\ [](\A p \in Procs :
             /\ pc[p] \in {"dump_config", "procedure", "dump_result"} =>
                   folder[p] \notin ValidFolders
             /\ pc[p] = "plot" \/ Returned(p) =>
                   /\ folder[p] \in ValidFolders
                   /\ Stored(folder[p]) = Made(p)
             /\ Returned(p) => last[p].run = Made(p))
    /\ [][ValidRunsStep]_vars

\* two runs were created and the first was renamed in between: both are
\* valid runs, with what their create calls wrote
C18_Witness ==
    /\ ops = 3
    /\ Returned("p1")
    /\ ValidFolders = {Append(Root, <<"y">>), folder["p1"]}
    /\ Stored(Append(Root, <<"y">>)).config = "c2"
    /\ Stored(folder["p1"]).config = "c1"
    /\ plotHist # {}

----------------------------------------------------------------------------
(* Properties of the hook.                                                 *)

\* C12: the context of the hook is the run folder exactly while the
\* procedure of a create call runs, and the default otherwise; so no create
\* call ends with the ValueError of a hook that its procedure opened.
C12_HookInsideProcedure ==
    \A p \in Procs :
        /\ context[p] = (IF pc[p] = "procedure" THEN folder[p] ELSE NoContext)
        /\ ~(Idle(p) /\ last[p].op = "create" /\ last[p].err = "ValueError")

----------------------------------------------------------------------------
(* Properties of plot generation.                                          *)

\* the caller's last operation generated plots into the folder last[p].path
PlotDone(p) ==
    Idle(p) /\ last[p].op \in {"create", "plot"} /\ last[p].path # <<>>

InsidePlots(p) ==
    /\ IsUnder(last[p].path, PlotsPath(last[p].run))
    /\ last[p].path # PlotsPath(last[p].run)

C8_PlotFoldersDistinct ==
    /\ [][plotHist' # plotHist =>
             /\ \A h \in plotHist' \ plotHist :
                   /\ ~Exists(FS, h[3])
                   /\ h[3] \in dirs'
                   /\ \E p \in Procs : last'[p].path = h[3]
             /\ FilesKept
             /\ dirs \subseteq dirs']_vars
    /\ [](\A a, b \in plotHist :
              a[1] = b[1] /\ a[1] \notin stale /\ a[2] # b[2] => a[3] # b[3])

\* a run has had three plot generations, and the files of the first are there
C8_Witness ==
    \E a, b \in plotHist :
        /\ a[1] = b[1] /\ a[1] \notin stale
        /\ a[2] = 1 /\ b[2] = 3
        /\ \E q \in DOMAIN files : IsUnder(q, a[3])
        /\ \E q \in DOMAIN files : IsUnder(q, b[3])

\* the files a plotter call is to write for its figures
FanOut(call) ==
    IF call.plotter.kind = "mapping"
    THEN {Append(Append(call.target, <<call.plotter.artist>>),
                 <<call.plotter.entries[j], ".", call.plotter.fmt>>) :
             j \in 1..Len(call.plotter.entries)}
    ELSE {Append(call.target, <<call.plotter.artist, ".", call.plotter.fmt>>)}

\* C9: a plotter whose artist returns a mapping of k names writes exactly
\* the k files <name>.<format> in the subfolder of the target folder named
\* after the artist; a plotter whose artist returns one figure writes exactly
\* the file <artist>.<format> in the target folder and makes no subfolder.
C9_PlotFanOut ==
    \A p \in Procs :
        PlotDone(p) =>
            /\ \A i \in 1..Len(last[p].log) :
                  LET call == last[p].log[i]
                  IN  /\ call.target = last[p].path
                      /\ call.written = FanOut(call)
                      /\ call.written \subseteq DOMAIN files
                      /\ IF call.plotter.kind = "mapping"
                         THEN /\ Cardinality(call.written) = Len(call.plotter.entries)
                              /\ call.made = {Append(call.target, <<call.plotter.artist>>)}
                         ELSE /\ Cardinality(call.written) = 1
                              /\ call.made = {}
            /\ {q \in DOMAIN files : IsUnder(q, last[p].path)}
                   = UNION {FanOut(last[p].log[i]) : i \in 1..Len(last[p].log)}

\* a plot generation ran a plotter of each kind
C9_Witness ==
    /\ PlotDone("p1")
    /\ \E i, j \in 1..Len(last["p1"].log) :
          /\ last["p1"].log[i].plotter.kind = "mapping"
          /\ Cardinality(last["p1"].log[i].written) = 3
          /\ last["p1"].log[j].plotter.kind = "single"
          /\ Cardinality(last["p1"].log[j].written) = 1

\* the last plotter call of a plot generation that wrote the file q
LastWriter(log, q) ==
    CHOOSE i \in 1..Len(log) :
        /\ q \in log[i].written
        /\ \A j \in (i + 1)..Len(log) : q \notin log[j].written

\* the figure that a plotter call saves as q for a run
FigureAt(call, q, run) ==
    Figure(call.plotter,
           IF call.plotter.kind = "mapping" THEN Name(q)[1] ELSE "",
           run.config, run.result)

\* C15: a plot generation calls every registered plotter, in the order of
\* registration and with the same target folder; each call writes the file
\* names of its artist, also when an earlier call wrote the same name, and
\* a file that several calls wrote holds the figure of the last of them.
C15_PlotOrder ==
    \A p \in Procs :
        PlotDone(p) =>
            LET log == last[p].log
            IN  /\ Len(log) = Len(plotters)
                /\ \A i \in 1..Len(log) :
                      /\ log[i].plotter = plotters[i]
                      /\ log[i].target = last[p].path
                      /\ log[i].written = FanOut(log[i])
                      /\ \A q \in log[i].written :
                            /\ q \in DOMAIN files
                            /\ files[q] = FigureAt(log[LastWriter(log, q)], q, last[p].run)
                /\ {q \in DOMAIN files : IsUnder(q, last[p].path)}
                       = UNION {FanOut(log[i]) : i \in 1..Len(log)}

\* two plotters wrote a.pdf: one file is there, with the figure of the second
C15_Witness ==
    /\ PlotDone("p1")
    /\ plotters = <<SinglePlotter, OtherPlotter>>
    /\ last["p1"].log[1].written = last["p1"].log[2].written
    /\ \A q \in last["p1"].log[1].written :
          files[q] = Figure(OtherPlotter, "", cfg["p1"], res["p1"])
    /\ Cardinality({q \in DOMAIN files : IsUnder(q, last["p1"].path)}) = 1

\* C14: every figure that a plotter call handles is closed after the write
\* attempt, whether savefig succeeded or raised: once the plot step of a
\* create call is over, returned or failed, no figure is open.
C14_FigureReleased == figures = {}

\* the last create call of caller p ended with the failure of a plotter
PlotFailed(p) ==
    Idle(p) /\ last[p].op = "create" /\ last[p].err \in PlotFailures

\* C19: when a plotter raises in the plot step of create, the failure
\* reaches the caller and no run is returned; the run folder holds the
\* config and result blobs of the call, so contains is true for it, lookup
\* returns its run and iterate yields it.
C19_PlotFailure ==
    \A p \in Procs :
        PlotFailed(p) =>
            /\ last[p].run = NoRun
            /\ Made(p) \notin handles
            /\ Holds(ConfigBlob(folder[p]), dump(cfg[p]))
            /\ Holds(ResultBlob(folder[p]), dump(res[p]))
            /\ \A ref \in RefsTo(folder[p]) :
                  /\ Contains(FS, ref)
                  /\ \A dbg \in BOOLEAN : GetItemError(FS, ref, dbg) = ""
                  /\ GetItem(FS, ref) = Made(p)
            /\ Made(p) \in Iter(FS)

\* savefig has raised for the second figure of a mapping, after another
\* plotter wrote its file
C19_Witness ==
    /\ PlotFailed("p1")
    /\ last["p1"].err = "SavefigError"
    /\ Cardinality({q \in DOMAIN files : IsUnder(q, PlotsPath(Made("p1")))}) = 2
    /\ Made("p1") \in Iter(FS)

\* the step in which caller p plots with a run whose folder a rename has
\* moved away, and nothing is at the old path
StalePlot(p) ==
    /\ last'[p].op = "plot"
    /\ ops' = ops + 1
    /\ last'[p].arg \in stale
    /\ ~Exists(FS, last'[p].arg)

\* the file system after the step
FSAfter == [dirs |-> dirs', files |-> files']

\* C20: plot on the handle of a run that rename has moved away does not
\* fail: it makes the old folder again, with a plots folder and nothing
\* else in it; the folder holds neither blob, contains is false for it and
\* iterate does not yield it; nothing outside the old folder changes, so
\* the folder of the renamed run is as it was.
C20_StalePlot ==
    [][\A p \in Procs :
          StalePlot(p) =>
              LET old == last'[p].arg
              IN  /\ last'[p].err = ""
                  /\ old \in dirs'
                  /\ last'[p].path = Append(old, <<"plots">>)
                  /\ {d \in dirs' : Len(d) = Len(old) + 1 /\ Parent(d) = old}
                         = {Append(old, <<"plots">>)}
                  /\ \A q \in DOMAIN files' :
                        IsUnder(q, old) => IsUnder(q, Append(old, <<"plots">>))
                  /\ ~has_config(FSAfter, old)
                  /\ ~has_result(FSAfter, old)
                  /\ \A ref \in RefsTo(old) : ~Contains(FSAfter, ref)
                  /\ \A run \in Iter(FSAfter) : run.location # old
                  /\ Iter(FSAfter) = Iter(FS)
                  /\ FilesKept
                  /\ dirs \subseteq dirs'
                  /\ \A d \in dirs' \ dirs : IsUnder(d, old)
                  /\ \A q \in DOMAIN files' :
                        q \notin DOMAIN files => IsUnder(q, old)]_vars

\* a run was renamed to "y" and its old handle was plotted: the old folder
\* is there again with figures in plots, and the run is at "y"
C20_Witness ==
    /\ last["p1"].op = "plot"
    /\ last["p1"].err = ""
    /\ last["p1"].arg \in stale
    /\ last["p1"].arg \in dirs
    /\ ~has_config(FS, last["p1"].arg)
    /\ \E q \in DOMAIN files : IsUnder(q, last["p1"].path)
    /\ Valid(Append(Root, <<"y">>))
    /\ Cardinality(Iter(FS)) = 1

----------------------------------------------------------------------------
(* Properties of reproduce.                                                *)

\* caller p's create call was entered by reproduce of a run that no rename
\* has moved away
Reproducing(p) == src[p] # NoRun /\ src[p].location \notin stale

Deterministic(c) == Cardinality(ProcResults(c)) = 1

\* C10: reproduce calls create with the run's configuration; the folder it
\* makes is not the run's folder; no step of it changes anything in the
\* run's folder; and for a deterministic procedure the run it returns has
\* the result of the original run.
C10_ReproduceIndependence ==
    /\ [](\A p \in Procs :
             Reproducing(p) /\ last[p].op = "create" =>
                 /\ cfg[p] = src[p].config
                 /\ PastMkdir(p) =>
                       /\ folder[p] # src[p].location
                       /\ folder[p] \in dirs
                 /\ Returned(p) =>
                       /\ last[p].run.location = folder[p]
                       /\ last[p].run.config = src[p].config
                       /\ Holds(ConfigBlob(folder[p]), dump(src[p].config))
                       /\ Deterministic(cfg[p]) =>
                             last[p].run.result = src[p].result)
    /\ [][\A p \in Procs :
             Reproducing(p) /\ ~Idle(p) =>
                 /\ \A q \in DOMAIN files :
                       IsUnder(q, src[p].location) =>
                           q \in DOMAIN files' /\ files'[q] = files[q]
                 /\ {q \in DOMAIN files' : IsUnder(q, src[p].location)}
                        = {q \in DOMAIN files : IsUnder(q, src[p].location)}
                 /\ {d \in dirs' : IsUnder(d, src[p].location)}
                        = {d \in dirs : IsUnder(d, src[p].location)}]_vars

\* reproduce of a run with plots has returned a run with the same result
C10_Witness ==
    /\ Returned("p1")
    /\ Reproducing("p1")
    /\ Deterministic(cfg["p1"])
    /\ last["p1"].run.result = src["p1"].result
    /\ last["p1"].run.location # src["p1"].location
    /\ Valid(src["p1"].location)
    /\ Exists(FS, PlotsPath(src["p1"]))

====
